---- MODULE Spec2Model ----
(***************************************************************************)
(* A model of scripts/process_rules.py: the rule-list pipeline that loads  *)
(* text sources, drops bad lines, extracts (type, domain) tokens,          *)
(* deduplicates them case-insensitively and writes a Surge and a           *)
(* Quantumult X file per rule group.                                       *)
(*                                                                         *)
(* A Python str is a sequence of one-character strings, so that substring  *)
(* tests, trimming, splitting and case conversion are computed character   *)
(* by character as the code computes them.  None is the empty tuple; a     *)
(* token is the pair <<type, domain>>.                                     *)
(***************************************************************************)
EXTENDS Integers, Sequences, FiniteSets, TLC

----------------------------------------------------------------------------
(* Character classes and str methods                                       *)

LowerLetters == <<"a","b","c","d","e","f","g","h","i","j","k","l","m","n","o","p","q","r","s","t","u","v","w","x","y","z">>
UpperLetters == <<"A","B","C","D","E","F","G","H","I","J","K","L","M","N","O","P","Q","R","S","T","U","V","W","X","Y","Z">>
Digits == {"0","1","2","3","4","5","6","7","8","9"}
\* str.strip() and the regex class \s
Whitespace == {" ", "\t", "\n", "\r"}
\* the line boundaries of str.splitlines()
LineBreaks == {"\n", "\r"}

SetMin(S) == CHOOSE a \in S : \A b \in S : a <= b
SetMax(S) == CHOOSE a \in S : \A b \in S : b <= a

upper_char(c) ==
    IF \E i \in 1..Len(LowerLetters) : LowerLetters[i] = c
    THEN UpperLetters[CHOOSE i \in 1..Len(LowerLetters) : LowerLetters[i] = c]
    ELSE c

lower_char(c) ==
    IF \E i \in 1..Len(UpperLetters) : UpperLetters[i] = c
    THEN LowerLetters[CHOOSE i \in 1..Len(UpperLetters) : UpperLetters[i] = c]
    ELSE c

\* str.upper()
upper(s) == [i \in 1..Len(s) |-> upper_char(s[i])]

\* str.lower()
lower(s) == [i \in 1..Len(s) |-> lower_char(s[i])]

\* str.strip()
strip(s) ==
    LET keep == {i \in 1..Len(s) : s[i] \notin Whitespace}
    IN  IF keep = {} THEN <<>> ELSE SubSeq(s, SetMin(keep), SetMax(keep))

\* pat in s
contains(s, pat) ==
    \E i \in 1..(Len(s) - Len(pat) + 1) : SubSeq(s, i, i + Len(pat) - 1) = pat

\* str.startswith(pat)
startswith(s, pat) == Len(pat) <= Len(s) /\ SubSeq(s, 1, Len(pat)) = pat

\* str.rstrip('\n')
rstrip_newline(s) ==
    LET keep == {i \in 1..Len(s) : s[i] # "\n"}
    IN  IF keep = {} THEN <<>> ELSE SubSeq(s, 1, SetMax(keep))

\* str.splitlines(): a line ends at "\n", "\r" or "\r\n"; no empty last line
RECURSIVE splitlines(_)
splitlines(text) ==
    IF text = <<>> THEN <<>>
    ELSE LET brk == {i \in 1..Len(text) : text[i] \in LineBreaks}
         IN  IF brk = {} THEN <<text>>
             ELSE LET i == SetMin(brk)
                      n == IF text[i] = "\r" /\ i < Len(text) /\ text[i+1] = "\n"
                           THEN 2 ELSE 1
                  IN  <<SubSeq(text, 1, i - 1)>>
                          \o splitlines(SubSeq(text, i + n, Len(text)))

\* '\n'.join(lines) + '\n'
RECURSIVE join_newline(_)
join_newline(lines) ==
    IF lines = <<>> THEN <<"\n">>
    ELSE IF Len(lines) = 1 THEN lines[1] \o <<"\n">>
    ELSE lines[1] \o <<"\n">> \o join_newline(Tail(lines))

----------------------------------------------------------------------------
(* Module constants                                                        *)

BAD_PATTERNS == <<
    <<"D","O","M","A","I","N",",","t","h","i","s","_","r","u","l","e","s","e","t","_","i","s","_","m","a","d","e","_","b","y","_","s","u","k","k","a","w",".","r","u","l","e","s","e","t",".","s","k","k",".","m","o","e">>,
    <<"7","h","1","s","_","r","u","l","3","5","e","t","_","i","5","_","m","a","d","3","_","b","y","_","5","u","k","k","4","w","-","r","u","l","e","s","e","t",".","s","k","k",".","m","o","e">>,
    <<"c","h","a","t",".","z",".","a","i">> >>

\* the alternatives of the rule-type filter of extract_domain_token
TYPE_FILTER == {
    <<"I","P">>, <<"I","P","-","C","I","D","R">>, <<"G","E","O","I","P">>, <<"P","O","R","T">>, <<"P","R","O","X","Y">>, <<"P","R","O","C","E","S","S">>,
    <<"U","S","E","R","-","A","G","E","N","T">>, <<"F","I","N","A","L">> }

None == <<>>

\* the values of a str
Str == Seq(STRING)

----------------------------------------------------------------------------
(* The line classifier                                                     *)

is_bad_line(line) ==
    IF line = <<>> THEN TRUE
    ELSE IF \E p \in 1..Len(BAD_PATTERNS) : contains(line, BAD_PATTERNS[p])
    THEN TRUE
    ELSE IF startswith(strip(line), <<"#">>) THEN TRUE
    ELSE FALSE

\* re.split(r'\s+#', line, 1)[0]: the text before the leftmost run of
\* whitespace that is followed by '#'
before_comment(line) ==
    LET at == {i \in 1..Len(line) :
                  /\ line[i] \in Whitespace
                  /\ \E j \in (i+1)..Len(line) :
                        /\ line[j] = "#"
                        /\ \A k \in i..(j-1) : line[k] \in Whitespace}
    IN  IF at = {} THEN line ELSE SubSeq(line, 1, SetMin(at) - 1)

\* variant: the rule-type filter without re.I
type_filtered_case_sensitive(left) == \E w \in TYPE_FILTER : contains(left, w)

\* re.search(r'IP|IP-CIDR|GEOIP|PORT|PROXY|PROCESS|USER-AGENT|FINAL', left, re.I)
type_filtered(left) == \E w \in TYPE_FILTER : contains(upper(left), w)

\* re.match(r'[0-9]+\.|\d+:', domain)
ip_like(domain) ==
    \E n \in 1..(Len(domain) - 1) :
        /\ \A k \in 1..n : domain[k] \in Digits
        /\ domain[n+1] \in {".", ":"}

\* line.split(',', 1)
split_comma(line) ==
    LET i == SetMin({k \in 1..Len(line) : line[k] = ","})
    IN  <<SubSeq(line, 1, i - 1), SubSeq(line, i + 1, Len(line))>>

\* variant: the IP-literal test applied to bare lines as well
extract_domain_token_ip_test_on_bare(line0) ==
    IF line0 = <<>> \/ strip(line0) = <<>> THEN None
    ELSE LET after_split[left \in Str, domain \in Str] ==
                 IF type_filtered(left) THEN None
                 ELSE IF ip_like(domain) THEN None
                 ELSE <<upper(left), domain>>
             after_strip[line \in Str] ==
                 IF is_bad_line(line) THEN None
                 ELSE IF contains(line, <<",">>)
                 THEN after_split[strip(split_comma(line)[1]),
                                  strip(split_comma(line)[2])]
                 ELSE IF contains(line, <<" ">>) \/ contains(line, <<"/">>)
                         \/ contains(line, <<":">>) \/ ip_like(line)
                 THEN None
                 ELSE <<<<"D","O","M","A","I","N">>, line>>
         IN  after_strip[strip(before_comment(line0))]

extract_domain_token(line0) ==
    IF line0 = <<>> \/ strip(line0) = <<>> THEN None
    ELSE LET after_split[left \in Str, domain \in Str] ==
                 IF type_filtered(left) THEN None
                 ELSE IF ip_like(domain) THEN None
                 ELSE <<upper(left), domain>>
             after_strip[line \in Str] ==
                 IF is_bad_line(line) THEN None
                 ELSE IF contains(line, <<",">>)
                 THEN after_split[strip(split_comma(line)[1]),
                                  strip(split_comma(line)[2])]
                 ELSE IF contains(line, <<" ">>) \/ contains(line, <<"/">>)
                         \/ contains(line, <<":">>)
                 THEN None
                 ELSE <<<<"D","O","M","A","I","N">>, line>>
         IN  after_strip[strip(before_comment(line0))]

----------------------------------------------------------------------------
(* The serializer                                                          *)

to_surge_line(token, domain) == token \o <<",">> \o domain

\* variant: an unmapped type kept in its own letter case
to_qx_line_keep_case(token, domain) ==
    LET t == IF token = <<"D","O","M","A","I","N","-","S","U","F","F","I","X">> THEN <<"h","o","s","t","-","s","u","f","f","i","x">>
             ELSE IF token = <<"D","O","M","A","I","N">> THEN <<"h","o","s","t">>
             ELSE IF token = <<"D","O","M","A","I","N","-","K","E","Y","W","O","R","D">> THEN <<"h","o","s","t","-","k","e","y","w","o","r","d">>
             ELSE IF token = <<"D","O","M","A","I","N","-","W","I","L","D","C","A","R","D">> THEN <<"h","o","s","t","-","w","i","l","d","c","a","r","d">>
             ELSE token
    IN  t \o <<",">> \o domain

to_qx_line(token, domain) ==
    LET t == IF token = <<"D","O","M","A","I","N","-","S","U","F","F","I","X">> THEN <<"h","o","s","t","-","s","u","f","f","i","x">>
             ELSE IF token = <<"D","O","M","A","I","N">> THEN <<"h","o","s","t">>
             ELSE IF token = <<"D","O","M","A","I","N","-","K","E","Y","W","O","R","D">> THEN <<"h","o","s","t","-","k","e","y","w","o","r","d">>
             ELSE IF token = <<"D","O","M","A","I","N","-","W","I","L","D","C","A","R","D">> THEN <<"h","o","s","t","-","w","i","l","d","c","a","r","d">>
             ELSE lower(token)
    IN  t \o <<",">> \o domain

----------------------------------------------------------------------------
(* Configuration of main                                                   *)

OUT_DIR == <<"g","e","n","e","r","a","t","e","d">>

\* os.path.join(a, b) for a relative b
os_path_join(a, b) == a \o <<"/">> \o b

\* the merge_and_write calls of main, in program order
GROUPS == <<
  [ sources |-> <<
      <<"L","i","s","t","/","d","o","m","a","i","n","s","e","t","/","a","p","p","l","e","_","c","d","n",".","c","o","n","f">>,
      <<"L","i","s","t","/","n","o","n","_","i","p","/","a","p","p","l","e","_","c","d","n",".","c","o","n","f">> >>,
    surge_out |-> os_path_join(OUT_DIR, <<"A","p","p","l","e","_","C","D","N","_","f","o","r","_","S","r","u","g","e",".","c","o","n","f">>),
    qx_out |-> os_path_join(OUT_DIR, <<"A","p","p","l","e","_","C","D","N","_","f","o","r","_","Q","X",".","s","n","i","p","p","e","t">>) ],
  [ sources |-> <<
      <<"h","t","t","p","s",":","/","/","r","u","l","e","s","e","t",".","s","k","k",".","m","o","e","/","L","i","s","t","/","d","o","m","a","i","n","s","e","t","/","c","d","n",".","c","o","n","f">>,
      <<"h","t","t","p","s",":","/","/","r","u","l","e","s","e","t",".","s","k","k",".","m","o","e","/","L","i","s","t","/","n","o","n","_","i","p","/","c","d","n",".","c","o","n","f">> >>,
    surge_out |-> os_path_join(OUT_DIR, <<"C","D","N","s","_","f","o","r","_","S","r","u","g","e",".","c","o","n","f">>),
    qx_out |-> os_path_join(OUT_DIR, <<"C","D","N","s","_","f","o","r","_","Q","X",".","s","n","i","p","p","e","t">>) ],
  [ sources |-> <<
      <<"h","t","t","p","s",":","/","/","r","u","l","e","s","e","t",".","s","k","k",".","m","o","e","/","L","i","s","t","/","n","o","n","_","i","p","/","a","i",".","c","o","n","f">>,
      <<"h","t","t","p","s",":","/","/","r","u","l","e","s","e","t",".","s","k","k",".","m","o","e","/","L","i","s","t","/","n","o","n","_","i","p","/","a","p","p","l","e","_","i","n","t","e","l","l","i","g","e","n","c","e",".","c","o","n","f">>,
      <<"h","t","t","p","s",":","/","/","r","a","w",".","g","i","t","h","u","b","u","s","e","r","c","o","n","t","e","n","t",".","c","o","m","/","b","l","a","c","k","m","a","t","r","i","x","7","/","i","o","s","_","r","u","l","e","_","s","c","r","i","p","t","/","r","e","f","s","/","h","e","a","d","s","/","m","a","s","t","e","r","/","r","u","l","e","/","S","u","r","g","e","/","A","n","t","h","r","o","p","i","c","/","A","n","t","h","r","o","p","i","c",".","l","i","s","t">>,
      <<"h","t","t","p","s",":","/","/","r","a","w",".","g","i","t","h","u","b","u","s","e","r","c","o","n","t","e","n","t",".","c","o","m","/","b","l","a","c","k","m","a","t","r","i","x","7","/","i","o","s","_","r","u","l","e","_","s","c","r","i","p","t","/","r","e","f","s","/","h","e","a","d","s","/","m","a","s","t","e","r","/","r","u","l","e","/","S","u","r","g","e","/","B","a","r","d","A","I","/","B","a","r","d","A","I",".","l","i","s","t">>,
      <<"h","t","t","p","s",":","/","/","r","a","w",".","g","i","t","h","u","b","u","s","e","r","c","o","n","t","e","n","t",".","c","o","m","/","b","l","a","c","k","m","a","t","r","i","x","7","/","i","o","s","_","r","u","l","e","_","s","c","r","i","p","t","/","m","a","s","t","e","r","/","r","u","l","e","/","S","u","r","g","e","/","G","e","m","i","n","i","/","G","e","m","i","n","i",".","l","i","s","t">>,
      <<"h","t","t","p","s",":","/","/","r","a","w",".","g","i","t","h","u","b","u","s","e","r","c","o","n","t","e","n","t",".","c","o","m","/","b","l","a","c","k","m","a","t","r","i","x","7","/","i","o","s","_","r","u","l","e","_","s","c","r","i","p","t","/","m","a","s","t","e","r","/","r","u","l","e","/","S","u","r","g","e","/","C","o","p","i","l","o","t","/","C","o","p","i","l","o","t","_","R","e","s","o","l","v","e",".","l","i","s","t">>,
      <<"h","t","t","p","s",":","/","/","r","a","w",".","g","i","t","h","u","b","u","s","e","r","c","o","n","t","e","n","t",".","c","o","m","/","b","l","a","c","k","m","a","t","r","i","x","7","/","i","o","s","_","r","u","l","e","_","s","c","r","i","p","t","/","m","a","s","t","e","r","/","r","u","l","e","/","S","u","r","g","e","/","C","l","a","u","d","e","/","C","l","a","u","d","e",".","l","i","s","t">>,
      <<"h","t","t","p","s",":","/","/","r","a","w",".","g","i","t","h","u","b","u","s","e","r","c","o","n","t","e","n","t",".","c","o","m","/","b","l","a","c","k","m","a","t","r","i","x","7","/","i","o","s","_","r","u","l","e","_","s","c","r","i","p","t","/","m","a","s","t","e","r","/","r","u","l","e","/","S","u","r","g","e","/","O","p","e","n","A","I","/","O","p","e","n","A","I","_","R","e","s","o","l","v","e",".","l","i","s","t">> >>,
    surge_out |-> os_path_join(OUT_DIR, <<"A","I","_","G","l","o","b","a","l","_","f","o","r","_","S","r","u","g","e",".","c","o","n","f">>),
    qx_out |-> os_path_join(OUT_DIR, <<"A","I","_","G","l","o","b","a","l","_","f","o","r","_","Q","X",".","s","n","i","p","p","e","t">>) ],
  [ sources |-> <<
      <<"h","t","t","p","s",":","/","/","r","u","l","e","s","e","t",".","s","k","k",".","m","o","e","/","L","i","s","t","/","n","o","n","_","i","p","/","d","i","r","e","c","t",".","c","o","n","f">>,
      <<"h","t","t","p","s",":","/","/","r","u","l","e","s","e","t",".","s","k","k",".","m","o","e","/","L","i","s","t","/","n","o","n","_","i","p","/","d","o","m","e","s","t","i","c",".","c","o","n","f">>,
      <<"h","t","t","p","s",":","/","/","r","u","l","e","s","e","t",".","s","k","k",".","m","o","e","/","L","i","s","t","/","n","o","n","_","i","p","/","m","y","_","d","i","r","e","c","t",".","c","o","n","f">>,
      <<"h","t","t","p","s",":","/","/","r","a","w",".","g","i","t","h","u","b","u","s","e","r","c","o","n","t","e","n","t",".","c","o","m","/","b","l","a","c","k","m","a","t","r","i","x","7","/","i","o","s","_","r","u","l","e","_","s","c","r","i","p","t","/","m","a","s","t","e","r","/","r","u","l","e","/","S","u","r","g","e","/","C","h","i","n","a","/","C","h","i","n","a","_","A","l","l","_","N","o","_","R","e","s","o","l","v","e",".","l","i","s","t">>,
      <<"h","t","t","p","s",":","/","/","r","a","w",".","g","i","t","h","u","b","u","s","e","r","c","o","n","t","e","n","t",".","c","o","m","/","b","l","a","c","k","m","a","t","r","i","x","7","/","i","o","s","_","r","u","l","e","_","s","c","r","i","p","t","/","m","a","s","t","e","r","/","r","u","l","e","/","S","u","r","g","e","/","G","o","v","C","N","/","G","o","v","C","N",".","l","i","s","t">> >>,
    surge_out |-> os_path_join(OUT_DIR, <<"C","N","_","D","o","m","e","s","t","i","c","_","f","o","r","_","S","u","r","g","e",".","c","o","n","f">>),
    qx_out |-> os_path_join(OUT_DIR, <<"C","N","_","D","o","m","e","s","t","i","c","_","f","o","r","_","Q","X",".","s","n","i","p","p","e","t">>) ],
  [ sources |-> <<
      <<"h","t","t","p","s",":","/","/","r","u","l","e","s","e","t",".","s","k","k",".","m","o","e","/","L","i","s","t","/","d","o","m","a","i","n","s","e","t","/","r","e","j","e","c","t",".","c","o","n","f">>,
      <<"h","t","t","p","s",":","/","/","r","u","l","e","s","e","t",".","s","k","k",".","m","o","e","/","L","i","s","t","/","d","o","m","a","i","n","s","e","t","/","r","e","j","e","c","t","_","e","x","t","r","a",".","c","o","n","f">>,
      <<"h","t","t","p","s",":","/","/","r","u","l","e","s","e","t",".","s","k","k",".","m","o","e","/","L","i","s","t","/","d","o","m","a","i","n","s","e","t","/","r","e","j","e","c","t","_","p","h","i","s","h","i","n","g",".","c","o","n","f">>,
      <<"h","t","t","p","s",":","/","/","r","u","l","e","s","e","t",".","s","k","k",".","m","o","e","/","L","i","s","t","/","n","o","n","_","i","p","/","r","e","j","e","c","t",".","c","o","n","f">> >>,
    surge_out |-> os_path_join(OUT_DIR, <<"s","k","k","_","r","e","j","e","c","t","_","f","o","r","_","S","u","r","g","e",".","c","o","n","f">>),
    qx_out |-> os_path_join(OUT_DIR, <<"s","k","k","_","r","e","j","e","c","t","_","f","o","r","_","Q","X",".","s","n","i","p","p","e","t">>) ] >>

----------------------------------------------------------------------------
(* Bounds of the model and the contents the environment can serve          *)

\* successful source reads in one run of main
MaxReads == 2
\* lines of a source text fed to one merge
MaxLines == 3
\* fragments concatenated into one line
MaxFrags == 3

\* what a fetch or a local read can return during a run of main
Texts == {
    <<"a",".","b","\r","\n","D","O","M","A","I","N",",","A",".","b">>,
    <<"#"," ","c","\n","\n","d","o","m","a","i","n",",","A",".","B","\n","I","P","-","C","I","D","R",",","1",".","2",".","3",".","4","/","3","2","\n","X",",","y","\n">> }

\* whole lines for the texts of several lines
MergeLines == {
    <<>>,
    <<"#"," ","c","o","m","m","e","n","t">>,
    <<"D","O","M","A","I","N",",","e","x","a","m","p","l","e",".","c","o","m">>,
    <<"d","o","m","a","i","n",",","E","X","A","M","P","L","E",".","c","o","m">>,
    <<"p","l","a","i","n",".","e","x","a","m","p","l","e",".","c","o","m">>,
    <<"D","O","M","A","I","N","-","S","U","F","F","I","X",",","g","o","o","d",".","c","o","m">>,
    <<"I","P","-","C","I","D","R",",","1",".","2",".","3",".","4","/","3","2">>,
    <<"c","u","s","t","o","m","-","t","a","g",",","b",".","c","o","m">>,
    <<"d","o","m","a","i","n","-","k","e","y","w","o","r","d"," ",","," ","g","o","o","d",".","c","o","m">>,
    <<"D","O","M","A","I","N","-","W","I","L","D","C","A","R","D",",","*",".","b",".","c","o","m">>,
    <<"D","O","M","A","I","N",",","x",".","c","o","m"," ","#"," ","c","h","a","t",".","z",".","a","i">> }

\* whole lines for the texts of one line
SingleLines == {
    <<"7","h","1","s","_","r","u","l","3","5","e","t","_","i","5","_","m","a","d","3","_","b","y","_","5","u","k","k","4","w","-","r","u","l","e","s","e","t",".","s","k","k",".","m","o","e">>,
    <<"D","O","M","A","I","N","-","S","U","F","F","I","X",",","7","h","1","s","_","r","u","l","3","5","e","t","_","i","5","_","m","a","d","3","_","b","y","_","5","u","k","k","4","w","-","r","u","l","e","s","e","t",".","s","k","k",".","m","o","e">>,
    <<"G","E","O","I","P",",","C","N">>,
    <<"D","S","T","-","P","O","R","T",",","8","0">>,
    <<"p","r","o","x","y",",","a",".","c","o","m">>,
    <<"P","r","o","c","e","s","s","-","N","a","m","e",",","a",".","c","o","m">>,
    <<"U","S","E","R","-","A","G","E","N","T",",","a","*">>,
    <<"F","i","n","a","l",",","a",".","c","o","m">>,
    <<"z","i","p",",","a",".","c","o","m">>,
    <<"D","O","M","A","I","N",",","1","2",":","a",".","c","o","m">>,
    <<"D","O","M","A","I","N",",","1","2","a",".","c","o","m">>,
    <<" "," ","D","O","M","A","I","N","-","S","U","F","F","I","X"," ",","," ","a",".","c","o","m"," ",","," ","b",".","c","o","m"," "," ","\t","#"," ","n","o","t","e">> }

\* pieces of a line
Fragments == {
    <<"D","O","M","A","I","N">>, <<"d","o","m","a","i","n">>, <<",">>,
    <<"t","h","i","s","_","r","u","l","e","s","e","t","_","i","s","_","m","a","d","e","_","b","y","_","s","u","k","k","a","w",".","r","u","l","e","s","e","t",".","s","k","k",".","m","o","e">>,
    <<"c","h","a","t",".","z",".","a","i">>,
    <<" ">>, <<"\t">>, <<"#">>, <<"1">>, <<".">>, <<":">>, <<"/">>, <<"a">>,
    <<"g","e","o","i","p">> }

RECURSIVE SeqsUpTo(_, _)
SeqsUpTo(S, n) ==
    IF n = 0 THEN {<<>>}
    ELSE LET shorter == SeqsUpTo(S, n - 1)
         IN  shorter \cup {Append(q, x) : q \in shorter, x \in S}

RECURSIVE Concat(_)
Concat(seqs) == IF seqs = <<>> THEN <<>> ELSE Head(seqs) \o Concat(Tail(seqs))

FragmentLines == {Concat(fs) : fs \in SeqsUpTo(Fragments, MaxFrags)}

\* the content of the one readable source of a stand-alone merge
UnitTexts ==
    {join_newline(ls) : ls \in SeqsUpTo(MergeLines, MaxLines)}
        \cup {join_newline(<<l>>) : l \in FragmentLines \cup SingleLines}

----------------------------------------------------------------------------
(* State                                                                   *)

VARIABLES
    pc,           \* position in main / merge_and_write
    mirrored,     \* whether crawl_and_mirror returned without raising
    g,            \* index in GROUPS of the current merge_and_write call
    s,            \* load_lines_from_sources: index of the next source
    resp,         \* what each source visited in this call gave: [ok, text]
    reads,        \* successful reads so far
    raw_lines,    \* load_lines_from_sources: lines; then merge's raw_lines
    idx,          \* position of the running for loop
    entries, seen, uniq, surge_lines, qx_lines,
    files         \* the output files written so far: path -> content

vars == <<pc, mirrored, g, s, resp, reads, raw_lines, idx, entries, seen,
          uniq, surge_lines, qx_lines, files>>

locals == <<entries, seen, uniq, surge_lines, qx_lines>>

group_sources == GROUPS[g].sources

\* save_file(path, content): create or overwrite
save_file(fs, path, content) ==
    [p \in (DOMAIN fs) \cup {path} |-> IF p = path THEN content ELSE fs[p]]

\* the lines one source text adds (lines 105-106)
lines_of(text) ==
    LET ls == splitlines(text) IN [n \in 1..Len(ls) |-> rstrip_newline(ls[n])]

is_remote(src) == startswith(src, <<"h","t","t","p",":","/","/">>) \/ startswith(src, <<"h","t","t","p","s",":","/","/">>)

Init ==
    /\ pc = "start"
    /\ mirrored = FALSE
    /\ g = 0
    /\ s = 0
    /\ resp = <<>>
    /\ reads = 0
    /\ raw_lines = <<>>
    /\ idx = 0
    /\ entries = <<>>
    /\ seen = {}
    /\ uniq = <<>>
    /\ surge_lines = <<>>
    /\ qx_lines = <<>>
    /\ files = <<>>

----------------------------------------------------------------------------
(* main                                                                    *)

\* ensure_dir(OUT_DIR); try: crawl_and_mirror(...) except Exception: print
Crawl ==
    /\ pc = "start"
    /\ \E ok \in BOOLEAN : mirrored' = ok
    /\ g' = 1
    /\ pc' = "call"
    /\ UNCHANGED <<s, resp, reads, raw_lines, idx, locals, files>>

\* merge_and_write(...) is entered and calls load_lines_from_sources
CallMerge ==
    /\ pc = "call"
    /\ pc' = "load"
    /\ s' = 1
    /\ resp' = <<>>
    /\ raw_lines' = <<>>
    /\ UNCHANGED <<mirrored, g, reads, idx, locals, files>>

\* merge_and_write returned: the next call of main, or the final print
Return ==
    /\ pc = "wrote"
    /\ IF g < Len(GROUPS)
       THEN g' = g + 1 /\ pc' = "call"
       ELSE g' = g /\ pc' = "done"
    /\ s' = 0
    /\ resp' = <<>>
    /\ raw_lines' = <<>>
    /\ idx' = 0
    /\ entries' = <<>>
    /\ seen' = {}
    /\ uniq' = <<>>
    /\ surge_lines' = <<>>
    /\ qx_lines' = <<>>
    /\ UNCHANGED <<mirrored, reads, files>>

----------------------------------------------------------------------------
(* load_lines_from_sources                                                 *)

\* variant: a failing source is not caught and ends the run
LoadSource_Raises ==
    /\ pc = "load"
    /\ s <= Len(group_sources)
    /\ \/ /\ pc' = "raised"
          /\ UNCHANGED <<resp, raw_lines, reads, s>>
       \/ /\ reads < MaxReads
          /\ \E text \in Texts :
                /\ resp' = Append(resp, [ok |-> TRUE, text |-> text])
                /\ raw_lines' = raw_lines \o lines_of(text)
          /\ reads' = reads + 1
          /\ s' = s + 1
          /\ pc' = pc
    /\ UNCHANGED <<mirrored, g, idx, locals, files>>

\* variant: a failing source ends the loop (break for continue)
LoadSource_StopsAtFailure ==
    /\ pc = "load"
    /\ s <= Len(group_sources)
    /\ \/ /\ resp' = Append(resp, [ok |-> FALSE, text |-> <<>>])
          /\ s' = Len(group_sources) + 1
          /\ UNCHANGED <<raw_lines, reads>>
       \/ /\ reads < MaxReads
          /\ \E text \in Texts :
                /\ resp' = Append(resp, [ok |-> TRUE, text |-> text])
                /\ raw_lines' = raw_lines \o lines_of(text)
          /\ reads' = reads + 1
          /\ s' = s + 1
    /\ UNCHANGED <<pc, mirrored, g, idx, locals, files>>

\* one iteration of "for src in sources": the fetch raises or the local file
\* is absent (continue), or the text is read and its lines are appended
LoadSource ==
    /\ pc = "load"
    /\ s <= Len(group_sources)
    /\ \/ /\ is_remote(group_sources[s])
          /\ \/ /\ resp' = Append(resp, [ok |-> FALSE, text |-> <<>>])
                /\ UNCHANGED <<raw_lines, reads>>
             \/ /\ reads < MaxReads
                /\ \E text \in Texts :
                      /\ resp' = Append(resp, [ok |-> TRUE, text |-> text])
                      /\ raw_lines' = raw_lines \o lines_of(text)
                /\ reads' = reads + 1
       \/ /\ ~is_remote(group_sources[s])
          /\ \/ /\ resp' = Append(resp, [ok |-> FALSE, text |-> <<>>])
                /\ UNCHANGED <<raw_lines, reads>>
             \/ /\ reads < MaxReads
                /\ \E text \in Texts :
                      /\ resp' = Append(resp, [ok |-> TRUE, text |-> text])
                      /\ raw_lines' = raw_lines \o lines_of(text)
                /\ reads' = reads + 1
    /\ s' = s + 1
    /\ UNCHANGED <<pc, mirrored, g, idx, locals, files>>

\* return lines; merge_and_write goes on with entries = []
LoadReturn ==
    /\ pc = "load"
    /\ s > Len(group_sources)
    /\ pc' = "filter"
    /\ idx' = 1
    /\ entries' = <<>>
    /\ UNCHANGED <<mirrored, g, s, resp, reads, raw_lines, seen, uniq,
                   surge_lines, qx_lines, files>>

----------------------------------------------------------------------------
(* merge_and_write                                                         *)

\* variant: the loop relies on extract_domain_token alone, which looks at the
\* line only after it has cut the comment off
FilterStep_NoPreCheck ==
    /\ pc = "filter"
    /\ idx <= Len(raw_lines)
    /\ LET ed == extract_domain_token(raw_lines[idx])
       IN  entries' = IF ed = None THEN entries ELSE Append(entries, ed)
    /\ idx' = idx + 1
    /\ UNCHANGED <<pc, mirrored, g, s, resp, reads, raw_lines, seen, uniq,
                   surge_lines, qx_lines, files>>

\* one iteration of "for ln in raw_lines"
FilterStep ==
    /\ pc = "filter"
    /\ idx <= Len(raw_lines)
    /\ LET ln == raw_lines[idx]
           ed == extract_domain_token(ln)
       IN  entries' = IF is_bad_line(ln) THEN entries
                      ELSE IF ed = None THEN entries
                      ELSE Append(entries, ed)
    /\ idx' = idx + 1
    /\ UNCHANGED <<pc, mirrored, g, s, resp, reads, raw_lines, seen, uniq,
                   surge_lines, qx_lines, files>>

\* seen = set(); uniq = []
FilterDone ==
    /\ pc = "filter"
    /\ idx > Len(raw_lines)
    /\ pc' = "dedup"
    /\ idx' = 1
    /\ seen' = {}
    /\ uniq' = <<>>
    /\ UNCHANGED <<mirrored, g, s, resp, reads, raw_lines, entries,
                   surge_lines, qx_lines, files>>

\* variant: the key keeps the letter case
DedupStep_CaseSensitive ==
    /\ pc = "dedup"
    /\ idx <= Len(entries)
    /\ LET t == entries[idx][1]
           d == entries[idx][2]
           key == <<t, d>>
       IN  IF key \in seen
           THEN UNCHANGED <<seen, uniq>>
           ELSE /\ seen' = seen \cup {key}
                /\ uniq' = Append(uniq, <<t, d>>)
    /\ idx' = idx + 1
    /\ UNCHANGED <<pc, mirrored, g, s, resp, reads, raw_lines, entries,
                   surge_lines, qx_lines, files>>

\* variant: a repeat takes the place of the token kept for its key
DedupStep_KeepLast ==
    /\ pc = "dedup"
    /\ idx <= Len(entries)
    /\ LET t == entries[idx][1]
           d == entries[idx][2]
           key == <<lower(t), lower(d)>>
       IN  IF key \in seen
           THEN /\ uniq' = [n \in 1..Len(uniq) |->
                               IF <<lower(uniq[n][1]), lower(uniq[n][2])>> = key
                               THEN <<t, d>> ELSE uniq[n]]
                /\ seen' = seen
           ELSE /\ seen' = seen \cup {key}
                /\ uniq' = Append(uniq, <<t, d>>)
    /\ idx' = idx + 1
    /\ UNCHANGED <<pc, mirrored, g, s, resp, reads, raw_lines, entries,
                   surge_lines, qx_lines, files>>

\* one iteration of "for t,d in entries"
DedupStep ==
    /\ pc = "dedup"
    /\ idx <= Len(entries)
    /\ LET t == entries[idx][1]
           d == entries[idx][2]
           key == <<lower(t), lower(d)>>
       IN  IF key \in seen
           THEN UNCHANGED <<seen, uniq>>
           ELSE /\ seen' = seen \cup {key}
                /\ uniq' = Append(uniq, <<t, d>>)
    /\ idx' = idx + 1
    /\ UNCHANGED <<pc, mirrored, g, s, resp, reads, raw_lines, entries,
                   surge_lines, qx_lines, files>>

\* surge_lines = []; qx_lines = []
DedupDone ==
    /\ pc = "dedup"
    /\ idx > Len(entries)
    /\ pc' = "render"
    /\ idx' = 1
    /\ surge_lines' = <<>>
    /\ qx_lines' = <<>>
    /\ UNCHANGED <<mirrored, g, s, resp, reads, raw_lines, entries, seen,
                   uniq, files>>

\* one iteration of "for t,d in uniq"
RenderStep ==
    /\ pc = "render"
    /\ idx <= Len(uniq)
    /\ surge_lines' = Append(surge_lines, to_surge_line(uniq[idx][1], uniq[idx][2]))
    /\ qx_lines' = Append(qx_lines, to_qx_line(uniq[idx][1], uniq[idx][2]))
    /\ idx' = idx + 1
    /\ UNCHANGED <<pc, mirrored, g, s, resp, reads, raw_lines, entries, seen,
                   uniq, files>>

\* save_file(surge_out, '\n'.join(surge_lines) + '\n')
SaveSurge ==
    /\ pc = "render"
    /\ idx > Len(uniq)
    /\ files' = save_file(files, GROUPS[g].surge_out, join_newline(surge_lines))
    /\ pc' = "save_qx"
    /\ UNCHANGED <<mirrored, g, s, resp, reads, raw_lines, idx, locals>>

\* save_file(qx_out, '\n'.join(qx_lines) + '\n'); print
SaveQx ==
    /\ pc = "save_qx"
    /\ files' = save_file(files, GROUPS[g].qx_out, join_newline(qx_lines))
    /\ pc' = "wrote"
    /\ UNCHANGED <<mirrored, g, s, resp, reads, raw_lines, idx, locals>>

----------------------------------------------------------------------------
(* Specifications                                                          *)

Next ==
    \/ Crawl \/ CallMerge \/ LoadSource \/ LoadReturn
    \/ FilterStep \/ FilterDone \/ DedupStep \/ DedupDone
    \/ RenderStep \/ SaveSurge \/ SaveQx \/ Return

\* a run of main
Spec == Init /\ [][Next]_vars

\* main is one sequential thread: it takes its next step whenever it has one
FairSpec == Spec /\ WF_vars(Next)

\* The first merge_and_write call of main at the point where
\* load_lines_from_sources has returned: the first local source held text and
\* the second was absent.
InitMerge ==
    /\ pc = "filter"
    /\ mirrored = FALSE
    /\ g = 1
    /\ s = Len(GROUPS[1].sources) + 1
    /\ \E text \in UnitTexts :
          /\ resp = <<[ok |-> TRUE, text |-> text], [ok |-> FALSE, text |-> <<>>]>>
          /\ raw_lines = lines_of(text)
    /\ reads = 1
    /\ idx = 1
    /\ entries = <<>>
    /\ seen = {}
    /\ uniq = <<>>
    /\ surge_lines = <<>>
    /\ qx_lines = <<>>
    /\ files = <<>>

NextMerge ==
    \/ FilterStep \/ FilterDone \/ DedupStep \/ DedupDone
    \/ RenderStep \/ SaveSurge \/ SaveQx

SpecMerge == InitMerge /\ [][NextMerge]_vars

----------------------------------------------------------------------------
(* Vocabulary of the properties                                            *)

\* the case-insensitive key of a token
key_of(tok) == <<lower(tok[1]), lower(tok[2])>>

has_bad_pattern(line) ==
    \E p \in 1..Len(BAD_PATTERNS) : contains(line, BAD_PATTERNS[p])

\* the line is kept by the merge: not bad, and the classifier gives a token
accepted(line) == ~is_bad_line(line) /\ extract_domain_token(line) # None

\* what the sources visited so far gave, concatenated in listed order
loaded_lines ==
    Concat([n \in 1..Len(resp) |->
               IF resp[n].ok THEN lines_of(resp[n].text) ELSE <<>>])

\* the first accepted line of L carrying key k
first_line(L, k) ==
    SetMin({i \in 1..Len(L) :
               accepted(L[i]) /\ key_of(extract_domain_token(L[i])) = k})

\* the remainder of a line once a trailing comment, which starts at the first
\* '#' that has whitespace right before it, and the outer whitespace are gone
remainder(line) ==
    LET marks == {h \in 2..Len(line) :
                     line[h] = "#" /\ line[h-1] \in Whitespace}
    IN  IF marks = {} THEN strip(line)
        ELSE strip(SubSeq(line, 1, SetMin(marks) - 1))

\* the parts of r around its first comma
before_first_comma(r) ==
    SubSeq(r, 1, (CHOOSE i \in 1..Len(r) :
                     r[i] = "," /\ \A k \in 1..(i-1) : r[k] # ",") - 1)
after_first_comma(r) ==
    SubSeq(r, (CHOOSE i \in 1..Len(r) :
                  r[i] = "," /\ \A k \in 1..(i-1) : r[k] # ",") + 1, Len(r))

has_char(r, c) == \E i \in 1..Len(r) : r[i] = c

\* one of the excluded rule kinds occurs in r, whatever the letter case
names_excluded_kind(r) ==
    \E w \in TYPE_FILTER :
        \E i \in 1..Len(r) :
            /\ i + Len(w) - 1 <= Len(r)
            /\ \A k \in 1..Len(w) : upper_char(r[i + k - 1]) = w[k]

\* r begins with one or more digits followed by '.' or ':'
digits_then_dot_or_colon(r) ==
    \E n \in 2..Len(r) :
        /\ r[n] \in {".", ":"}
        /\ \A k \in 1..(n-1) : r[k] \in Digits

\* the filter loop stands before line idx
at_line == pc = "filter" /\ idx <= Len(raw_lines)

----------------------------------------------------------------------------
(* C1                                                                      *)

\* C1: the deduplicated token list uniq never holds, at two different
\* positions, tokens whose (lowercase(ruleType), lowercase(domain)) keys are
\* equal.
C1_UniqKeysDistinct ==
    \A a, b \in 1..Len(uniq) :
        a # b => <<lower(uniq[a][1]), lower(uniq[a][2])>>
                    # <<lower(uniq[b][1]), lower(uniq[b][2])>>

\* the dedup loop has run over entries that repeat a key in another letter
\* case, and two tokens were kept
C1_Witness ==
    /\ pc = "wrote"
    /\ Len(uniq) >= 2
    /\ \E a, b \in 1..Len(entries) :
          /\ a < b
          /\ entries[a] # entries[b]
          /\ key_of(entries[a]) = key_of(entries[b])

----------------------------------------------------------------------------
(* C2                                                                      *)

\* C2: the merge result lists the tokens in first-occurrence order over the
\* concatenation of the sources' lines in listed order: every accepted key is
\* listed, the token listed for a key is the one extracted from the first
\* accepted line with that key, and of two listed tokens the earlier one has
\* the earlier first line.
C2_FirstOccurrenceOrder ==
    pc = "wrote" =>
        LET L == loaded_lines
        IN  /\ \A i \in 1..Len(L) :
                  accepted(L[i]) =>
                      \E n \in 1..Len(uniq) :
                          key_of(uniq[n]) = key_of(extract_domain_token(L[i]))
            /\ \A n \in 1..Len(uniq) :
                  /\ \E i \in 1..Len(L) :
                        accepted(L[i]) /\ key_of(extract_domain_token(L[i])) = key_of(uniq[n])
                  /\ uniq[n] = extract_domain_token(L[first_line(L, key_of(uniq[n]))])
            /\ \A a, b \in 1..Len(uniq) :
                  a < b => first_line(L, key_of(uniq[a])) < first_line(L, key_of(uniq[b]))

\* two sources were read, a key of the first comes again in the second in
\* another letter case, and more than one token was kept
C2_Witness ==
    /\ pc = "wrote"
    /\ Cardinality({n \in 1..Len(resp) : resp[n].ok}) >= 2
    /\ Len(uniq) >= 2
    /\ \E i, j \in 1..Len(raw_lines) :
          /\ i < j
          /\ accepted(raw_lines[i]) /\ accepted(raw_lines[j])
          /\ extract_domain_token(raw_lines[i]) = uniq[1]
          /\ extract_domain_token(raw_lines[j]) # uniq[1]
          /\ key_of(extract_domain_token(raw_lines[j])) = key_of(uniq[1])

----------------------------------------------------------------------------
(* C3                                                                      *)

\* C3: a raw line that contains a BAD_PATTERNS substring anywhere, also inside
\* a trailing comment, contributes no token: the step of the filter loop that
\* handles it leaves entries as it was.
C3_BadPatternLineAddsNothing ==
    [][(at_line /\ has_bad_pattern(raw_lines[idx])) => entries' = entries]_vars

\* a handled line whose only bad pattern sits in its trailing comment, and
\* whose text before the comment is a rule of its own
C3_Witness ==
    /\ pc = "filter"
    /\ \E i \in 1..(idx - 1) :
          /\ has_bad_pattern(raw_lines[i])
          /\ ~has_bad_pattern(remainder(raw_lines[i]))
          /\ accepted(remainder(raw_lines[i]))
    /\ entries = <<>>

----------------------------------------------------------------------------
(* C4                                                                      *)

\* the tokens read back from a written Surge file
read_back(content) ==
    {extract_domain_token(l) :
        l \in {splitlines(content)[n] : n \in 1..Len(splitlines(content))}
              \ {b \in {splitlines(content)[n] : n \in 1..Len(splitlines(content))} :
                    is_bad_line(b)}} \ {None}

merge_result == {uniq[n] : n \in 1..Len(uniq)}

\* C4: round trip: the Surge file of a merge, split into lines and run back
\* through the bad-line test and the classifier, gives the tokens of the merge
\* result again; only tokens whose domain begins with digits followed by '.'
\* or ':' may be missing, and no token is altered.
C4_RoundTrip ==
    pc = "wrote" =>
        LET back == read_back(files[GROUPS[g].surge_out])
        IN  /\ back \subseteq merge_result
            /\ \A tok \in merge_result \ back : digits_then_dot_or_colon(tok[2])

\* the round trip apart from the tokens whose Surge line holds a bad pattern
RoundTripOfCleanLines ==
    pc = "wrote" =>
        LET back == read_back(files[GROUPS[g].surge_out])
        IN  /\ back \subseteq merge_result
            /\ \A tok \in merge_result \ back :
                  \/ digits_then_dot_or_colon(tok[2])
                  \/ has_bad_pattern(tok[1] \o <<",">> \o tok[2])

----------------------------------------------------------------------------
(* C5                                                                      *)

written(h) ==
    /\ GROUPS[h].surge_out \in DOMAIN files
    /\ GROUPS[h].qx_out \in DOMAIN files

untouched(h) ==
    /\ GROUPS[h].surge_out \notin DOMAIN files
    /\ GROUPS[h].qx_out \notin DOMAIN files

groups_in_order ==
    /\ \A h \in 1..Len(GROUPS) :
          /\ h < g => written(h)
          /\ h > g => untouched(h)
    /\ pc \in {"wrote", "done"} => written(g)
    /\ pc \in {"call", "load", "filter", "dedup", "render"} => untouched(g)
    /\ (pc = "wrote" /\ uniq = <<>>) =>
          /\ files[GROUPS[g].surge_out] = <<"\n">>
          /\ files[GROUPS[g].qx_out] = <<"\n">>
    /\ pc = "done" => g = Len(GROUPS)

\* C5: whatever the crawl, the fetches and the local reads do, main runs
\* merge_and_write for the five groups in their order, writes both files of
\* each group (a newline-only file for a group without tokens) and reaches the
\* final message.
C5_AllGroupsWritten == [](groups_in_order) /\ <>(pc = "done")

\* the run is over after a failed crawl; a group whose sources all failed
\* left a newline-only file and a later group wrote rules
C5_Witness ==
    /\ pc = "done"
    /\ ~mirrored
    /\ \A h \in 1..Len(GROUPS) : written(h)
    /\ \E h1, h2 \in 1..Len(GROUPS) :
          /\ h1 < h2
          /\ files[GROUPS[h1].surge_out] = <<"\n">>
          /\ files[GROUPS[h2].surge_out] # <<"\n">>

----------------------------------------------------------------------------
(* C6                                                                      *)

\* C6: load_lines_from_sources visits every listed source and returns the
\* lines of the sources that could be read, concatenated in listed order and
\* with repeats kept; a source that fails adds nothing and stops nothing.
C6_LoadConcatenatesReadableSources ==
    /\ pc = "load" => Len(resp) = s - 1 /\ raw_lines = loaded_lines
    /\ pc = "filter" =>
          /\ Len(resp) = Len(group_sources)
          /\ raw_lines = loaded_lines

\* the loader returned after a failing source between two readable sources
\* that held the same text: the repeated lines are all there
C6_Witness ==
    /\ pc = "filter"
    /\ idx = 1
    /\ \E a, b, c \in 1..Len(resp) :
          /\ a < b /\ b < c
          /\ resp[a].ok /\ ~resp[b].ok /\ resp[c].ok
          /\ resp[a].text = resp[c].text
    /\ \E i, j \in 1..Len(raw_lines) : i < j /\ raw_lines[i] = raw_lines[j]

----------------------------------------------------------------------------
(* C7                                                                      *)

qx_type_of(ruleType) ==
    CASE ruleType = <<"D","O","M","A","I","N","-","S","U","F","F","I","X">> -> <<"h","o","s","t","-","s","u","f","f","i","x">>
      [] ruleType = <<"D","O","M","A","I","N">> -> <<"h","o","s","t">>
      [] ruleType = <<"D","O","M","A","I","N","-","K","E","Y","W","O","R","D">> -> <<"h","o","s","t","-","k","e","y","w","o","r","d">>
      [] ruleType = <<"D","O","M","A","I","N","-","W","I","L","D","C","A","R","D">> -> <<"h","o","s","t","-","w","i","l","d","c","a","r","d">>
      [] OTHER -> [i \in 1..Len(ruleType) |-> lower_char(ruleType[i])]

\* C7: the QX output has one line per token, in the order of the Surge
\* output, of the form qxType,domain with the domain of the Surge line at the
\* same place and qxType host-suffix / host / host-keyword / host-wildcard for
\* DOMAIN-SUFFIX / DOMAIN / DOMAIN-KEYWORD / DOMAIN-WILDCARD, lowercase(type)
\* otherwise; the lines are joined by newline, with one newline at the end.
C7_QxLines ==
    pc = "wrote" =>
        LET qx == files[GROUPS[g].qx_out]
            surge == files[GROUPS[g].surge_out]
        IN  /\ Len(qx_lines) = Len(uniq)
            /\ Len(surge_lines) = Len(uniq)
            /\ \A n \in 1..Len(uniq) :
                  /\ before_first_comma(surge_lines[n]) = uniq[n][1]
                  /\ before_first_comma(qx_lines[n]) = qx_type_of(uniq[n][1])
                  /\ after_first_comma(qx_lines[n]) = after_first_comma(surge_lines[n])
                  /\ after_first_comma(qx_lines[n]) = uniq[n][2]
            /\ qx[Len(qx)] = "\n"
            /\ splitlines(qx) = IF uniq = <<>> THEN << <<>> >> ELSE qx_lines
            /\ splitlines(surge) = IF uniq = <<>> THEN << <<>> >> ELSE surge_lines

\* both files are written for a merge result that holds a type with a QX name
\* of its own and a type without
C7_Witness ==
    /\ pc = "wrote"
    /\ \E a, b \in 1..Len(uniq) :
          /\ uniq[a][1] = <<"D","O","M","A","I","N","-","S","U","F","F","I","X">>
          /\ uniq[b][1] = <<"C","U","S","T","O","M","-","T","A","G">>
          /\ qx_lines[b] = <<"c","u","s","t","o","m","-","t","a","g",",","b",".","c","o","m">>

----------------------------------------------------------------------------
(* C8                                                                      *)

\* C8: for a line that is not bad and whose remainder holds a comma, the
\* classifier splits at the first comma and gives a token exactly when the
\* trimmed left part names none of IP, IP-CIDR, GEOIP, PORT, PROXY, PROCESS,
\* USER-AGENT, FINAL (any letter case, anywhere) and the trimmed right part
\* does not begin with digits followed by '.' or ':'; the token is
\* (uppercase(left), right).  So no token of a merge carries such a type.
C8_CommaLines ==
    /\ [](\A n \in 1..Len(uniq) : ~names_excluded_kind(uniq[n][1]))
    /\ [][(at_line /\ ~is_bad_line(raw_lines[idx])
              /\ has_char(remainder(raw_lines[idx]), ","))
          => LET r == remainder(raw_lines[idx])
                 left == strip(before_first_comma(r))
                 right == strip(after_first_comma(r))
             IN  entries' =
                    IF ~names_excluded_kind(left) /\ ~digits_then_dot_or_colon(right)
                    THEN Append(entries, <<[i \in 1..Len(left) |-> upper_char(left[i])], right>>)
                    ELSE entries]_vars

\* a comma line with a lowercase type and blanks around the comma gave a token
C8_Witness ==
    /\ pc = "wrote"
    /\ Len(raw_lines) = 1
    /\ has_char(remainder(raw_lines[1]), ",")
    /\ Len(uniq) = 1
    /\ uniq[1][1] # before_first_comma(raw_lines[1])
    /\ uniq[1][2] # after_first_comma(raw_lines[1])
    /\ uniq[1][2] # <<>>

----------------------------------------------------------------------------
(* C9                                                                      *)

----------------------------------------------------------------------------
(* C10                                                                     *)

\* C10: no line of the Surge output of a group contains a BAD_PATTERNS
\* substring: none of the rendered lines would be classified as bad by
\* is_bad_line.
C10_SurgeOutputIsClean ==
    \A n \in 1..Len(surge_lines) :
        /\ ~has_bad_pattern(surge_lines[n])
        /\ ~is_bad_line(surge_lines[n])

====
